---------------------------- MODULE Spec2Model ----------------------------
(***************************************************************************)
(* Life-insurance policy canister (src/src/index.ts): a StableBTreeMap of  *)
(* policy records keyed by id and the six operations on it.                *)
(* The variant of the canister without input validation                   *)
(* (src/unnamed/part_001) is modelled next to it.                          *)
(*                                                                         *)
(* JavaScript values are modelled as follows.                              *)
(*   - an object is a function from its own property names to values, so   *)
(*     `field in payload` is `field \in DOMAIN payload` and object spread  *)
(*     is function override (Spread);                                      *)
(*   - a request payload is wrapped as JsNull or JsObject(f), since the    *)
(*     handlers test `!payload` before they look at its properties;        *)
(*   - an id is a string, "" being the falsy one;                          *)
(*   - Opt.None is <<>> and Opt.Some(x) is <<x>>;                          *)
(*   - Result.Ok(v) is [Ok |-> v] and Result.Err(m) is [Err |-> m];        *)
(*   - a template-literal message is the sequence of its pieces.           *)
(***************************************************************************)
EXTENDS Integers, Sequences, FiniteSets, TLC

(* Bounds of the model. *)
MaxIds == 1
MaxTime == 2
MaxPolicies == 2

VARIABLES
    insurancePolicyStorage, \* the StableBTreeMap: a function from the stored keys to records
    time,                   \* the value ic.time() returns
    uuidCount,              \* how many ids uuidv4() has handed out
    call,                   \* the last call made: [op, id]
    result,                 \* what the last call returned
    filed,                  \* history, kept under SpecFiled only: the fileClaim calls that succeeded
    plainStorage,           \* kept under SpecBoth only: the StableBTreeMap of the variant without validation
    plainResult             \* kept under SpecBoth only: what that variant returned for the last call

vars == <<insurancePolicyStorage, time, uuidCount, call, result, filed,
          plainStorage, plainResult>>

-----------------------------------------------------------------------------
(* Values *)

Principals == {"alice", "bob"}

OptNone == <<>>
OptSome(x) == <<x>>

Ok(v) == [Ok |-> v]
Err(m) == [Err |-> m]
IsOk(r) == DOMAIN r = {"Ok"}
IsErr(r) == DOMAIN r = {"Err"}

JsNull == [type |-> "null"]
JsObject(f) == [type |-> "object", fields |-> f]

(* The n-th value uuidv4() returns; the generator never repeats itself. *)
uuidv4(n) == "uuid-" \o ToString(n)

Ids == {uuidv4(n) : n \in 1..MaxIds}

(* {...a, ...b}: b's properties override a's. *)
Spread(a, b) ==
    [k \in DOMAIN a \cup DOMAIN b |-> IF k \in DOMAIN b THEN b[k] ELSE a[k]]

(* The declared payload type: the values each property ranges over. *)
LifeInsurancePolicyPayload ==
    [policyHolder : Principals,
     coverageAmount : {100000},
     premiumAmount : {500},
     policyStartDate : {1000},
     policyEndDate : {2000},
     isClaimed : BOOLEAN]

requiredFields ==
    <<"policyHolder", "coverageAmount", "premiumAmount",
      "policyStartDate", "policyEndDate", "isClaimed">>

-----------------------------------------------------------------------------
(* StableBTreeMap *)

(* insert that keeps nothing but the entry it writes. *)
insert_Replaces(store, key, value) == [k \in {key} |-> value]

insert(store, key, value) ==
    [k \in DOMAIN store \cup {key} |-> IF k = key THEN value ELSE store[k]]

get(store, key) ==
    IF key \in DOMAIN store THEN OptSome(store[key]) ELSE OptNone

remove(store, key) ==
    [k \in DOMAIN store \ {key} |-> store[k]]

-----------------------------------------------------------------------------
(* Inputs *)

(* What a caller can pass as an id: a generated id, a string that is no    *)
(* generated id, or the empty string.                                      *)
IdInputs == Ids \cup {"no-such-id", ""}

(* What a caller can pass as a payload: null, an object of the declared    *)
(* type, or such an object with some of its properties left out. The calls *)
(* of the state machine draw the objects that lack one property or all of  *)
(* them; the handlers return before they read a property's value.          *)
requiredFieldSet == {requiredFields[i] : i \in DOMAIN requiredFields}

without(p, S) == [k \in DOMAIN p \ S |-> p[k]]

PartialPayloads ==
    {JsObject(without(p, S)) :
        p \in {q \in LifeInsurancePolicyPayload : q.policyHolder = "alice" /\ ~q.isClaimed},
        S \in {{f} : f \in requiredFieldSet} \cup {requiredFieldSet}}

FullPayloads == {JsObject(p) : p \in LifeInsurancePolicyPayload}

PayloadInputs == {JsNull} \cup FullPayloads \cup PartialPayloads

(* The first field of requiredFields that `fields` lacks, 0 if none: the   *)
(* `for (const field of requiredFields)` loop returns at the first one.    *)
firstMissing(fields) ==
    LET missing == {i \in DOMAIN requiredFields : requiredFields[i] \notin DOMAIN fields}
    IN  IF missing = {} THEN 0
        ELSE CHOOSE i \in missing : \A j \in missing : i <= j

(* Does create/update accept the payload? *)
validPayload(payload) ==
    payload # JsNull /\ firstMissing(payload.fields) = 0

-----------------------------------------------------------------------------
(* Messages *)

invalidIdMessage == <<"Invalid ID format.">>
notFoundMessage(id) == <<"Insurance Policy with ID=", id, " not found.">>
alreadyFiledMessage(id) ==
    <<"Claim for Insurance Policy with ID=", id, " has already been filed.">>
missingFieldMessage(field) == <<"Missing required field: ", field, ".">>
invalidCreatePayloadMessage == <<"Invalid payload for creating an insurance policy.">>
invalidUpdatePayloadMessage == <<"Invalid payload for updating an insurance policy.">>
invalidUserMessage == <<"Invalid current user ID.">>

-----------------------------------------------------------------------------
(* The handlers, as functions of the store and their inputs. Each returns  *)
(* the store it leaves and the result it returns.                          *)

(* createInsurancePolicy with the new record stamped as updated. *)
createInsurancePolicy_StampsUpdatedAt(store, payload, newId, now) ==
    IF payload = JsNull
    THEN [store |-> store, result |-> Err(invalidCreatePayloadMessage)]
    ELSE IF firstMissing(payload.fields) # 0
    THEN [store |-> store,
          result |-> Err(missingFieldMessage(requiredFields[firstMissing(payload.fields)]))]
    ELSE LET insurancePolicy ==
                 Spread([id |-> newId, createdAt |-> now, updatedAt |-> OptSome(now)],
                        payload.fields)
         IN  [store |-> insert(store, insurancePolicy.id, insurancePolicy),
              result |-> Ok(insurancePolicy)]

(* createInsurancePolicy storing the record before the payload is merged   *)
(* into it.                                                                *)
createInsurancePolicy_StoresUnmerged(store, payload, newId, now) ==
    IF payload = JsNull
    THEN [store |-> store, result |-> Err(invalidCreatePayloadMessage)]
    ELSE IF firstMissing(payload.fields) # 0
    THEN [store |-> store,
          result |-> Err(missingFieldMessage(requiredFields[firstMissing(payload.fields)]))]
    ELSE LET bare == [id |-> newId, createdAt |-> now, updatedAt |-> OptNone]
             insurancePolicy == Spread(bare, payload.fields)
         IN  [store |-> insert(store, bare.id, bare),
              result |-> Ok(insurancePolicy)]

(* createInsurancePolicy storing the record under its holder, not its id. *)
createInsurancePolicy_KeysByHolder(store, payload, newId, now) ==
    IF payload = JsNull
    THEN [store |-> store, result |-> Err(invalidCreatePayloadMessage)]
    ELSE IF firstMissing(payload.fields) # 0
    THEN [store |-> store,
          result |-> Err(missingFieldMessage(requiredFields[firstMissing(payload.fields)]))]
    ELSE LET insurancePolicy ==
                 Spread([id |-> newId, createdAt |-> now, updatedAt |-> OptNone],
                        payload.fields)
         IN  [store |-> insert(store, insurancePolicy.policyHolder, insurancePolicy),
              result |-> Ok(insurancePolicy)]

createInsurancePolicy(store, payload, newId, now) ==
    IF payload = JsNull
    THEN [store |-> store, result |-> Err(invalidCreatePayloadMessage)]
    ELSE IF firstMissing(payload.fields) # 0
    THEN [store |-> store,
          result |-> Err(missingFieldMessage(requiredFields[firstMissing(payload.fields)]))]
    ELSE LET insurancePolicy ==
                 Spread([id |-> newId, createdAt |-> now, updatedAt |-> OptNone],
                        payload.fields)
         IN  [store |-> insert(store, insurancePolicy.id, insurancePolicy),
              result |-> Ok(insurancePolicy)]

(* getInsurancePolicy that takes the record out of the store. *)
getInsurancePolicy_Takes(store, id) ==
    IF id = ""
    THEN [store |-> store, result |-> Err(invalidIdMessage)]
    ELSE IF get(store, id) # OptNone
    THEN [store |-> remove(store, id), result |-> Ok(get(store, id)[1])]
    ELSE [store |-> store, result |-> Err(notFoundMessage(id))]

getInsurancePolicy(store, id) ==
    IF id = ""
    THEN [store |-> store, result |-> Err(invalidIdMessage)]
    ELSE IF get(store, id) # OptNone
    THEN [store |-> store, result |-> Ok(get(store, id)[1])]
    ELSE [store |-> store, result |-> Err(notFoundMessage(id))]

(* updateInsurancePolicy writing the merged record before it checks the    *)
(* payload's fields.                                                       *)
updateInsurancePolicy_ValidatesAfterWrite(store, id, payload, now) ==
    IF id = ""
    THEN [store |-> store, result |-> Err(invalidIdMessage)]
    ELSE IF payload = JsNull
    THEN [store |-> store, result |-> Err(invalidUpdatePayloadMessage)]
    ELSE IF get(store, id) # OptNone
    THEN LET existingPolicy == get(store, id)[1]
             updatedPolicy ==
                 Spread(Spread(existingPolicy, payload.fields),
                        [updatedAt |-> OptSome(now)])
             written == insert(store, updatedPolicy.id, updatedPolicy)
         IN  IF firstMissing(payload.fields) # 0
             THEN [store |-> written,
                   result |-> Err(missingFieldMessage(
                                      requiredFields[firstMissing(payload.fields)]))]
             ELSE [store |-> written, result |-> Ok(updatedPolicy)]
    ELSE [store |-> store, result |-> Err(notFoundMessage(id))]

(* updateInsurancePolicy creating the record when the id is not stored. *)
updateInsurancePolicy_Upserts(store, id, payload, now) ==
    IF id = ""
    THEN [store |-> store, result |-> Err(invalidIdMessage)]
    ELSE IF payload = JsNull
    THEN [store |-> store, result |-> Err(invalidUpdatePayloadMessage)]
    ELSE IF firstMissing(payload.fields) # 0
    THEN [store |-> store,
          result |-> Err(missingFieldMessage(requiredFields[firstMissing(payload.fields)]))]
    ELSE LET existingPolicy ==
                 IF get(store, id) # OptNone THEN get(store, id)[1]
                 ELSE [id |-> id, createdAt |-> now, updatedAt |-> OptNone]
             updatedPolicy ==
                 Spread(Spread(existingPolicy, payload.fields),
                        [updatedAt |-> OptSome(now)])
         IN  [store |-> insert(store, updatedPolicy.id, updatedPolicy),
              result |-> Ok(updatedPolicy)]

(* updateInsurancePolicy rebuilding the record as create does, createdAt   *)
(* included.                                                               *)
updateInsurancePolicy_Restamps(store, id, payload, now) ==
    IF id = ""
    THEN [store |-> store, result |-> Err(invalidIdMessage)]
    ELSE IF payload = JsNull
    THEN [store |-> store, result |-> Err(invalidUpdatePayloadMessage)]
    ELSE IF firstMissing(payload.fields) # 0
    THEN [store |-> store,
          result |-> Err(missingFieldMessage(requiredFields[firstMissing(payload.fields)]))]
    ELSE IF get(store, id) # OptNone
    THEN LET existingPolicy == get(store, id)[1]
             updatedPolicy ==
                 Spread(Spread(existingPolicy, payload.fields),
                        [createdAt |-> now, updatedAt |-> OptSome(now)])
         IN  [store |-> insert(store, updatedPolicy.id, updatedPolicy),
              result |-> Ok(updatedPolicy)]
    ELSE [store |-> store, result |-> Err(notFoundMessage(id))]

updateInsurancePolicy(store, id, payload, now) ==
    IF id = ""
    THEN [store |-> store, result |-> Err(invalidIdMessage)]
    ELSE IF payload = JsNull
    THEN [store |-> store, result |-> Err(invalidUpdatePayloadMessage)]
    ELSE IF firstMissing(payload.fields) # 0
    THEN [store |-> store,
          result |-> Err(missingFieldMessage(requiredFields[firstMissing(payload.fields)]))]
    ELSE IF get(store, id) # OptNone
    THEN LET existingPolicy == get(store, id)[1]
             updatedPolicy ==
                 Spread(Spread(existingPolicy, payload.fields),
                        [updatedAt |-> OptSome(now)])
         IN  [store |-> insert(store, updatedPolicy.id, updatedPolicy),
              result |-> Ok(updatedPolicy)]
    ELSE [store |-> store, result |-> Err(notFoundMessage(id))]

(* deleteInsurancePolicy that returns the record and leaves it stored. *)
deleteInsurancePolicy_KeepsEntry(store, id) ==
    IF id = ""
    THEN [store |-> store, result |-> Err(invalidIdMessage)]
    ELSE IF get(store, id) # OptNone
    THEN [store |-> store, result |-> Ok(get(store, id)[1])]
    ELSE [store |-> store, result |-> Err(notFoundMessage(id))]

deleteInsurancePolicy(store, id) ==
    IF id = ""
    THEN [store |-> store, result |-> Err(invalidIdMessage)]
    ELSE IF get(store, id) # OptNone
    THEN LET existingPolicy == get(store, id)[1]
         IN  [store |-> remove(store, id), result |-> Ok(existingPolicy)]
    ELSE [store |-> store, result |-> Err(notFoundMessage(id))]

(* fileClaim without the isClaimed check: a claimed record is claimed      *)
(* again.                                                                  *)
fileClaim_Refiles(store, id, now) ==
    IF id = ""
    THEN [store |-> store, result |-> Err(invalidIdMessage)]
    ELSE IF get(store, id) # OptNone
    THEN LET policy == get(store, id)[1]
             updatedPolicy ==
                 Spread(policy, [isClaimed |-> TRUE, updatedAt |-> OptSome(now)])
         IN  [store |-> insert(store, updatedPolicy.id, updatedPolicy),
              result |-> Ok(updatedPolicy)]
    ELSE [store |-> store, result |-> Err(notFoundMessage(id))]

(* fileClaim setting isClaimed and leaving updatedAt as it was. *)
fileClaim_KeepsUpdatedAt(store, id, now) ==
    IF id = ""
    THEN [store |-> store, result |-> Err(invalidIdMessage)]
    ELSE IF get(store, id) # OptNone
    THEN LET policy == get(store, id)[1]
         IN  IF policy.isClaimed
             THEN [store |-> store, result |-> Err(alreadyFiledMessage(id))]
             ELSE LET updatedPolicy == Spread(policy, [isClaimed |-> TRUE])
                  IN  [store |-> insert(store, updatedPolicy.id, updatedPolicy),
                       result |-> Ok(updatedPolicy)]
    ELSE [store |-> store, result |-> Err(notFoundMessage(id))]

fileClaim(store, id, now) ==
    IF id = ""
    THEN [store |-> store, result |-> Err(invalidIdMessage)]
    ELSE IF get(store, id) # OptNone
    THEN LET policy == get(store, id)[1]
         IN  IF policy.isClaimed
             THEN [store |-> store, result |-> Err(alreadyFiledMessage(id))]
             ELSE LET updatedPolicy ==
                          Spread(policy, [isClaimed |-> TRUE, updatedAt |-> OptSome(now)])
                  IN  [store |-> insert(store, updatedPolicy.id, updatedPolicy),
                       result |-> Ok(updatedPolicy)]
    ELSE [store |-> store, result |-> Err(notFoundMessage(id))]

(* typeof of the Principal object ic.caller() returns. *)
typeofPrincipal == "object"

(* a === b on two Principal objects: identity of the objects. The caller   *)
(* object is made anew by ic.caller() and the stored records are decoded   *)
(* anew by values(), so the two operands are never one object.             *)
strictEqualPrincipals(a, b) == FALSE

(* No key of a store has a number above IdLimit. *)
IdLimit == IF MaxIds > MaxPolicies THEN MaxIds ELSE MaxPolicies

(* StableBTreeMap.values(): the records in key order. *)
RECURSIVE valuesFrom(_, _)
valuesFrom(store, n) ==
    IF n > IdLimit THEN <<>>
    ELSE IF uuidv4(n) \in DOMAIN store
    THEN <<store[uuidv4(n)]>> \o valuesFrom(store, n + 1)
    ELSE valuesFrom(store, n + 1)

values(store) == valuesFrom(store, 1)

getAllInsurancePolicies(store, currentUserId) ==
    IF typeofPrincipal # "string"
    THEN [store |-> store, result |-> Err(invalidUserMessage)]
    ELSE LET keep(policy) == strictEqualPrincipals(policy.policyHolder, currentUserId)
             userInsurancePolicies == SelectSeq(values(store), keep)
         IN  [store |-> store, result |-> Ok(userInsurancePolicies)]

-----------------------------------------------------------------------------
(* The variant of the canister without input validation                    *)

(* The properties an object spread copies from a payload: none from null. *)
spreadable(payload) == IF payload = JsNull THEN <<>> ELSE payload.fields

createInsurancePolicy_part_001(store, payload, newId, now) ==
    LET insurancePolicy ==
            Spread([id |-> newId, createdAt |-> now, updatedAt |-> OptNone],
                   spreadable(payload))
    IN  [store |-> insert(store, insurancePolicy.id, insurancePolicy),
         result |-> Ok(insurancePolicy)]

getInsurancePolicy_part_001(store, id) ==
    IF get(store, id) # OptNone
    THEN [store |-> store, result |-> Ok(get(store, id)[1])]
    ELSE [store |-> store, result |-> Err(notFoundMessage(id))]

getAllInsurancePolicies_part_001(store, currentUserId) ==
    LET keep(policy) == strictEqualPrincipals(policy.policyHolder, currentUserId)
        userInsurancePolicies == SelectSeq(values(store), keep)
    IN  [store |-> store, result |-> Ok(userInsurancePolicies)]

updateInsurancePolicy_part_001(store, id, payload, now) ==
    IF get(store, id) # OptNone
    THEN LET existingPolicy == get(store, id)[1]
             updatedPolicy ==
                 Spread(Spread(existingPolicy, spreadable(payload)),
                        [updatedAt |-> OptSome(now)])
         IN  [store |-> insert(store, updatedPolicy.id, updatedPolicy),
              result |-> Ok(updatedPolicy)]
    ELSE [store |-> store, result |-> Err(notFoundMessage(id))]

deleteInsurancePolicy_part_001(store, id) ==
    IF get(store, id) # OptNone
    THEN [store |-> remove(store, id), result |-> Ok(get(store, id)[1])]
    ELSE [store |-> store, result |-> Err(notFoundMessage(id))]

fileClaim_part_001(store, id, now) ==
    IF get(store, id) # OptNone
    THEN LET policy == get(store, id)[1]
         IN  IF ~policy.isClaimed
             THEN LET updatedPolicy ==
                          Spread(policy, [isClaimed |-> TRUE,
                                          updatedAt |-> OptSome(now)])
                  IN  [store |-> insert(store, updatedPolicy.id, updatedPolicy),
                       result |-> Ok(updatedPolicy)]
             ELSE [store |-> store, result |-> Err(alreadyFiledMessage(id))]
    ELSE [store |-> store, result |-> Err(notFoundMessage(id))]

-----------------------------------------------------------------------------
(* The state machine *)

Init ==
    /\ insurancePolicyStorage = <<>>
    /\ time = 1
    /\ uuidCount = 0
    /\ call = [op |-> "none", id |-> ""]
    /\ result = Err(<<>>)
    /\ filed = <<>>
    /\ plainStorage = <<>>
    /\ plainResult = Err(<<>>)

(* One call: the handler's store and result become the state. *)
Returns(op, id, r) ==
    /\ insurancePolicyStorage' = r.store
    /\ result' = r.result
    /\ call' = [op |-> op, id |-> id]
    /\ UNCHANGED time

CreateInsurancePolicy ==
    \E payload \in PayloadInputs :
        /\ validPayload(payload) => uuidCount < MaxIds
        /\ Returns("createInsurancePolicy", "",
                   createInsurancePolicy(insurancePolicyStorage, payload,
                                         uuidv4(uuidCount + 1), time))
        /\ uuidCount' = IF validPayload(payload) THEN uuidCount + 1 ELSE uuidCount

GetInsurancePolicy ==
    \E id \in IdInputs :
        /\ Returns("getInsurancePolicy", id,
                   getInsurancePolicy(insurancePolicyStorage, id))
        /\ UNCHANGED uuidCount

GetAllInsurancePolicies ==
    \E caller \in Principals :
        /\ Returns("getAllInsurancePolicies", "",
                   getAllInsurancePolicies(insurancePolicyStorage, caller))
        /\ UNCHANGED uuidCount

UpdateInsurancePolicy ==
    \E id \in IdInputs, payload \in PayloadInputs :
        /\ Returns("updateInsurancePolicy", id,
                   updateInsurancePolicy(insurancePolicyStorage, id, payload, time))
        /\ UNCHANGED uuidCount

DeleteInsurancePolicy ==
    \E id \in IdInputs :
        /\ Returns("deleteInsurancePolicy", id,
                   deleteInsurancePolicy(insurancePolicyStorage, id))
        /\ UNCHANGED uuidCount

FileClaim ==
    \E id \in IdInputs :
        /\ Returns("fileClaim", id, fileClaim(insurancePolicyStorage, id, time))
        /\ UNCHANGED uuidCount

(* The host's clock moves on between calls; it never goes back. *)
Tick ==
    /\ time < MaxTime
    /\ time' = time + 1
    /\ UNCHANGED <<insurancePolicyStorage, uuidCount, call, result>>

(* The state of the variant without validation. *)
plain == <<plainStorage, plainResult>>

(* The canister: the history variable and the other variant are not kept. *)
Next ==
    \/ CreateInsurancePolicy /\ UNCHANGED <<filed, plain>>
    \/ GetInsurancePolicy /\ UNCHANGED <<filed, plain>>
    \/ GetAllInsurancePolicies /\ UNCHANGED <<filed, plain>>
    \/ UpdateInsurancePolicy /\ UNCHANGED <<filed, plain>>
    \/ DeleteInsurancePolicy /\ UNCHANGED <<filed, plain>>
    \/ FileClaim /\ UNCHANGED <<filed, plain>>
    \/ Tick /\ UNCHANGED <<filed, plain>>

Spec == Init /\ [][Next]_vars

(* The canister with the history of its first policy. While the record    *)
(* with the first generated id is stored, filed holds for it the isClaimed *)
(* and updatedAt that the last successful fileClaim on it stored, Opt.None *)
(* before the first. The history goes with the record on deletion.         *)
Monitored == {uuidv4(1)}

filedAfter ==
    [k \in DOMAIN insurancePolicyStorage' \cap Monitored |->
        IF call'.op = "fileClaim" /\ call'.id = k /\ IsOk(result')
        THEN OptSome([isClaimed |-> result'.Ok.isClaimed,
                      updatedAt |-> result'.Ok.updatedAt])
        ELSE IF k \in DOMAIN filed THEN filed[k] ELSE OptNone]

NextFiled ==
    \/ CreateInsurancePolicy /\ filed' = filedAfter /\ UNCHANGED plain
    \/ GetInsurancePolicy /\ filed' = filedAfter /\ UNCHANGED plain
    \/ GetAllInsurancePolicies /\ filed' = filedAfter /\ UNCHANGED plain
    \/ UpdateInsurancePolicy /\ filed' = filedAfter /\ UNCHANGED plain
    \/ DeleteInsurancePolicy /\ filed' = filedAfter /\ UNCHANGED plain
    \/ FileClaim /\ filed' = filedAfter /\ UNCHANGED plain
    \/ Tick /\ UNCHANGED <<filed, plain>>

SpecFiled == Init /\ [][NextFiled]_vars

(* The canister holding several policies within one reading of the clock: *)
(* uuidv4() hands out up to MaxPolicies ids and the calls name any of      *)
(* them, or the empty id.                                                  *)
PolicyIds == {uuidv4(n) : n \in 1..MaxPolicies}

PolicyIdInputs == PolicyIds \cup {""}

CreatePolicy ==
    \E payload \in PayloadInputs :
        /\ validPayload(payload) => uuidCount < MaxPolicies
        /\ Returns("createInsurancePolicy", "",
                   createInsurancePolicy(insurancePolicyStorage, payload,
                                         uuidv4(uuidCount + 1), time))
        /\ uuidCount' = IF validPayload(payload) THEN uuidCount + 1 ELSE uuidCount

GetPolicy ==
    \E id \in PolicyIdInputs :
        /\ Returns("getInsurancePolicy", id,
                   getInsurancePolicy(insurancePolicyStorage, id))
        /\ UNCHANGED uuidCount

GetAllPolicies ==
    \E caller \in Principals :
        /\ Returns("getAllInsurancePolicies", "",
                   getAllInsurancePolicies(insurancePolicyStorage, caller))
        /\ UNCHANGED uuidCount

UpdatePolicy ==
    \E id \in PolicyIdInputs, payload \in PayloadInputs :
        /\ Returns("updateInsurancePolicy", id,
                   updateInsurancePolicy(insurancePolicyStorage, id, payload, time))
        /\ UNCHANGED uuidCount

DeletePolicy ==
    \E id \in PolicyIdInputs :
        /\ Returns("deleteInsurancePolicy", id,
                   deleteInsurancePolicy(insurancePolicyStorage, id))
        /\ UNCHANGED uuidCount

FilePolicyClaim ==
    \E id \in PolicyIdInputs :
        /\ Returns("fileClaim", id, fileClaim(insurancePolicyStorage, id, time))
        /\ UNCHANGED uuidCount

NextPolicies ==
    \/ CreatePolicy /\ UNCHANGED <<filed, plain>>
    \/ GetPolicy /\ UNCHANGED <<filed, plain>>
    \/ GetAllPolicies /\ UNCHANGED <<filed, plain>>
    \/ UpdatePolicy /\ UNCHANGED <<filed, plain>>
    \/ DeletePolicy /\ UNCHANGED <<filed, plain>>
    \/ FilePolicyClaim /\ UNCHANGED <<filed, plain>>

SpecPolicies == Init /\ [][NextPolicies]_vars

(* The two variants side by side: every call goes to both, each on its own *)
(* store, with the same clock and the same uuidv4(). The calls carry valid *)
(* input only: a non-empty id, a payload with every required field.        *)
ValidIdInputs == IdInputs \ {""}

BothReturn(op, id, r, q) ==
    /\ Returns(op, id, r)
    /\ plainStorage' = q.store
    /\ plainResult' = q.result

CreateInBoth ==
    \E payload \in FullPayloads :
        /\ uuidCount < MaxIds
        /\ BothReturn("createInsurancePolicy", "",
                      createInsurancePolicy(insurancePolicyStorage, payload,
                                            uuidv4(uuidCount + 1), time),
                      createInsurancePolicy_part_001(plainStorage, payload,
                                                     uuidv4(uuidCount + 1), time))
        /\ uuidCount' = uuidCount + 1

GetInBoth ==
    \E id \in ValidIdInputs :
        /\ BothReturn("getInsurancePolicy", id,
                      getInsurancePolicy(insurancePolicyStorage, id),
                      getInsurancePolicy_part_001(plainStorage, id))
        /\ UNCHANGED uuidCount

UpdateInBoth ==
    \E id \in ValidIdInputs, payload \in FullPayloads :
        /\ BothReturn("updateInsurancePolicy", id,
                      updateInsurancePolicy(insurancePolicyStorage, id, payload, time),
                      updateInsurancePolicy_part_001(plainStorage, id, payload, time))
        /\ UNCHANGED uuidCount

DeleteInBoth ==
    \E id \in ValidIdInputs :
        /\ BothReturn("deleteInsurancePolicy", id,
                      deleteInsurancePolicy(insurancePolicyStorage, id),
                      deleteInsurancePolicy_part_001(plainStorage, id))
        /\ UNCHANGED uuidCount

FileClaimInBoth ==
    \E id \in ValidIdInputs :
        /\ BothReturn("fileClaim", id,
                      fileClaim(insurancePolicyStorage, id, time),
                      fileClaim_part_001(plainStorage, id, time))
        /\ UNCHANGED uuidCount

NextBoth ==
    \/ CreateInBoth /\ UNCHANGED filed
    \/ GetInBoth /\ UNCHANGED filed
    \/ UpdateInBoth /\ UNCHANGED filed
    \/ DeleteInBoth /\ UNCHANGED filed
    \/ FileClaimInBoth /\ UNCHANGED filed
    \/ Tick /\ UNCHANGED <<filed, plain>>

SpecBoth == Init /\ [][NextBoth]_vars

-----------------------------------------------------------------------------
(* Properties *)

(* A step that is a call: the clock stands still while a handler runs, and *)
(* a step that changes nothing but the clock is no call.                   *)
CallStep == time' = time

(* The last call was op(id). *)
Called(op, id) == call = [op |-> op, id |-> id]

(* This step is the call op(id). *)
Calls(op, id) == CallStep /\ call' = [op |-> op, id |-> id]

Live(id) == id \in DOMAIN insurancePolicyStorage

(* C1: isClaimed is monotonic per policy: once the stored record of an id  *)
(* has isClaimed = true, no later operation leaves a stored record for     *)
(* that id with isClaimed = false. Ids are never reissued, so a record     *)
(* live before and after a step is the same policy.                        *)
C1_ClaimedStaysClaimed ==
    [][\A id \in Ids :
          (Live(id) /\ insurancePolicyStorage[id].isClaimed /\ Live(id)')
              => insurancePolicyStorage'[id].isClaimed]_vars

(* C2: claim filing is a one-time event: once a fileClaim on a record has  *)
(* succeeded, every later fileClaim on its id, for as long as the record   *)
(* is stored, returns the Conflict failure, so that at most one succeeds.  *)
C2_AtMostOneSuccessfulClaim ==
    [][\A id \in DOMAIN filed :
          (filed[id] # OptNone /\ Calls("fileClaim", id))
              => result' = Err(alreadyFiledMessage(id))]_vars

(* C3: a stored record has isClaimed = true only if a fileClaim on its id  *)
(* has succeeded since the record was created.                             *)
C3_ClaimedOnlyByFileClaim ==
    \A id \in DOMAIN filed :
        insurancePolicyStorage[id].isClaimed => filed[id] # OptNone

(* C10: policyHolder is immutable once assigned: no call changes the       *)
(* policyHolder of a stored record.                                        *)
C10_PolicyHolderImmutable ==
    [][\A id \in Ids :
          (Live(id) /\ Live(id)')
              => insurancePolicyStorage'[id].policyHolder
                     = insurancePolicyStorage[id].policyHolder]_vars

(* C4, as first stated: after fileClaim has returned the Conflict failure  *)
(* on a record that an earlier fileClaim claimed, the stored isClaimed and *)
(* updatedAt are those that earlier fileClaim left.                        *)
C4_ConflictKeepsWhatFirstClaimLeft ==
    \A id \in DOMAIN filed :
        ( /\ Called("fileClaim", id)
          /\ result = Err(alreadyFiledMessage(id))
          /\ filed[id] # OptNone )
            => /\ insurancePolicyStorage[id].isClaimed = filed[id][1].isClaimed
               /\ insurancePolicyStorage[id].updatedAt = filed[id][1].updatedAt

(* C4, amended: fileClaim on a stored record whose isClaimed is true       *)
(* returns the Conflict failure naming the id and leaves the store as it   *)
(* was immediately before the call.                                        *)
C4_ConflictLeavesStoreUnchanged ==
    [][\A id \in Ids :
          (Calls("fileClaim", id) /\ Live(id) /\ insurancePolicyStorage[id].isClaimed)
              => /\ result' = Err(alreadyFiledMessage(id))
                 /\ insurancePolicyStorage' = insurancePolicyStorage]_vars

C4_Witness ==
    \E id \in DOMAIN filed :
        /\ Called("fileClaim", id)
        /\ result = Err(alreadyFiledMessage(id))
        /\ insurancePolicyStorage[id].isClaimed
        /\ filed[id] # OptNone

(* C5: fileClaim on a stored record with isClaimed = false stores under    *)
(* the same id the record with isClaimed = true and updatedAt = the        *)
(* clock's time, every other field as it was, and returns the record it    *)
(* stored.                                                                 *)
C5_FileClaimOnUnclaimed ==
    [][\A id \in Ids :
          (Calls("fileClaim", id) /\ Live(id) /\ ~insurancePolicyStorage[id].isClaimed)
              => /\ DOMAIN insurancePolicyStorage' = DOMAIN insurancePolicyStorage
                 /\ insurancePolicyStorage'[id] =
                        [insurancePolicyStorage[id] EXCEPT
                            !.isClaimed = TRUE, !.updatedAt = OptSome(time)]
                 /\ result' = Ok(insurancePolicyStorage'[id])]_vars

C5_Witness ==
    \E id \in DOMAIN insurancePolicyStorage :
        /\ Called("fileClaim", id)
        /\ result = Ok(insurancePolicyStorage[id])
        /\ insurancePolicyStorage[id].isClaimed
        /\ insurancePolicyStorage[id].updatedAt = OptSome(time)
        /\ insurancePolicyStorage[id].createdAt < time

(* C6: a call that returns a failure leaves the store as it was, and takes *)
(* no id from the generator, so the calls that follow find what they would *)
(* have found without it.                                                  *)
C6_FailureLeavesStoreUnchanged ==
    [][(CallStep /\ IsErr(result'))
          => /\ insurancePolicyStorage' = insurancePolicyStorage
             /\ uuidCount' = uuidCount]_vars

C6_Witness ==
    \E id \in DOMAIN insurancePolicyStorage :
        /\ Called("updateInsurancePolicy", id)
        /\ result = Err(missingFieldMessage("isClaimed"))

(* C7: for every non-empty id that is not stored, getInsurancePolicy,      *)
(* updateInsurancePolicy (with a payload that has all required fields),    *)
(* deleteInsurancePolicy and fileClaim return the NotFound failure naming  *)
(* that id, in every reachable state.                                      *)
C7_AbsentIdIsNotFound ==
    \A id \in IdInputs \ {""} :
        ~Live(id) =>
            /\ getInsurancePolicy(insurancePolicyStorage, id).result
                   = Err(notFoundMessage(id))
            /\ \A payload \in FullPayloads :
                   updateInsurancePolicy(insurancePolicyStorage, id, payload, time).result
                       = Err(notFoundMessage(id))
            /\ deleteInsurancePolicy(insurancePolicyStorage, id).result
                   = Err(notFoundMessage(id))
            /\ fileClaim(insurancePolicyStorage, id, time).result
                   = Err(notFoundMessage(id))

C7_Witness ==
    /\ uuidCount > 0
    /\ ~Live(call.id)
    /\ call.op = "updateInsurancePolicy"
    /\ call.id \in Ids
    /\ result = Err(notFoundMessage(call.id))

(* C8: in every reachable state, updateInsurancePolicy on a stored record  *)
(* with a payload that has all required fields succeeds and stores, under  *)
(* the same key, and returns a record with the same id and the same        *)
(* createdAt, whatever the payload holds; and neither updateInsurancePolicy *)
(* (with any payload) nor fileClaim leaves the record with another id or   *)
(* another createdAt, so that they stay as creation set them.              *)
C8_UpdateKeepsIdAndCreatedAt ==
    \A id \in DOMAIN insurancePolicyStorage :
        LET kept(r) ==
                /\ DOMAIN r.store = DOMAIN insurancePolicyStorage
                /\ r.store[id].id = id
                /\ r.store[id].createdAt = insurancePolicyStorage[id].createdAt
        IN  /\ insurancePolicyStorage[id].id = id
            /\ \A payload \in FullPayloads :
                   LET r == updateInsurancePolicy(insurancePolicyStorage, id, payload, time)
                   IN  /\ IsOk(r.result)
                       /\ r.result.Ok.id = id
                       /\ r.result.Ok.createdAt = insurancePolicyStorage[id].createdAt
                       /\ r.store[id] = r.result.Ok
            /\ \A payload \in PayloadInputs :
                   kept(updateInsurancePolicy(insurancePolicyStorage, id, payload, time))
            /\ kept(fileClaim(insurancePolicyStorage, id, time))

C8_Witness ==
    \E id \in DOMAIN insurancePolicyStorage :
        /\ Called("updateInsurancePolicy", id)
        /\ result = Ok(insurancePolicyStorage[id])
        /\ insurancePolicyStorage[id].id = id
        /\ insurancePolicyStorage[id].createdAt < time
        /\ insurancePolicyStorage[id].updatedAt = OptSome(time)

(* C9: updatedAt is absent on the record createInsurancePolicy stores and  *)
(* returns; a successful updateInsurancePolicy or fileClaim leaves it      *)
(* equal to the clock's time during the call; a present updatedAt is never *)
(* less than the record's createdAt, and a successful update or fileClaim  *)
(* never sets it to less than it was.                                      *)
C9_UpdatedAtFollowsClock ==
    [][/\ (CallStep /\ call'.op = "createInsurancePolicy" /\ IsOk(result')) =>
              /\ result'.Ok.updatedAt = OptNone
              /\ result'.Ok.id \in DOMAIN insurancePolicyStorage'
              /\ insurancePolicyStorage'[result'.Ok.id] = result'.Ok
       /\ \A id \in Ids :
              /\ ( /\ CallStep
                   /\ call'.op \in {"updateInsurancePolicy", "fileClaim"}
                   /\ call'.id = id
                   /\ IsOk(result') ) =>
                     /\ Live(id)'
                     /\ insurancePolicyStorage'[id].updatedAt = OptSome(time)
                     /\ result'.Ok.updatedAt = OptSome(time)
                     /\ (Live(id) /\ insurancePolicyStorage[id].updatedAt # OptNone) =>
                            insurancePolicyStorage'[id].updatedAt[1]
                                >= insurancePolicyStorage[id].updatedAt[1]
              /\ (Live(id)' /\ insurancePolicyStorage'[id].updatedAt # OptNone) =>
                     insurancePolicyStorage'[id].updatedAt[1]
                         >= insurancePolicyStorage'[id].createdAt]_vars

C9_Witness ==
    \E id \in DOMAIN insurancePolicyStorage :
        /\ call.op \in {"updateInsurancePolicy", "fileClaim"}
        /\ call.id = id
        /\ result = Ok(insurancePolicyStorage[id])
        /\ insurancePolicyStorage[id].updatedAt = OptSome(time)
        /\ insurancePolicyStorage[id].createdAt < time

(* C11: in every reachable state, createInsurancePolicy with a payload     *)
(* that has all required fields succeeds, and getInsurancePolicy with the  *)
(* id it returned then returns the record create returned: every payload   *)
(* field as given, createdAt the clock's time at creation, updatedAt       *)
(* absent.                                                                 *)
C11_CreateThenGet ==
    \A payload \in FullPayloads :
        LET created == createInsurancePolicy(insurancePolicyStorage, payload,
                                             uuidv4(uuidCount + 1), time)
        IN  /\ IsOk(created.result)
            /\ LET got == getInsurancePolicy(created.store, created.result.Ok.id)
               IN  /\ got.result = created.result
                   /\ got.store = created.store
                   /\ \A field \in requiredFieldSet :
                          got.result.Ok[field] = payload.fields[field]
                   /\ got.result.Ok.createdAt = time
                   /\ got.result.Ok.updatedAt = OptNone

C11_Witness ==
    \E id \in DOMAIN insurancePolicyStorage :
        /\ Called("getInsurancePolicy", id)
        /\ result = Ok(insurancePolicyStorage[id])
        /\ insurancePolicyStorage[id].createdAt = time
        /\ insurancePolicyStorage[id].updatedAt = OptNone
        /\ time > 1

(* C12: getAllInsurancePolicies succeeds for every caller and in every     *)
(* reachable state of the store, the empty one included; it never returns  *)
(* a failure.                                                              *)
C12_GetAllAlwaysSucceeds ==
    call.op = "getAllInsurancePolicies" => IsOk(result)

(* The stored records whose policyHolder is the caller. *)
ownedBy(store, caller) ==
    {store[id] : id \in {k \in DOMAIN store : store[k].policyHolder = caller}}

(* C13: whenever getAllInsurancePolicies returns a sequence, in either     *)
(* variant, the sequence holds exactly the stored records whose            *)
(* policyHolder is the caller: none of another holder, none of the         *)
(* caller's left out.                                                      *)
C13_GetAllReturnsCallersRecords ==
    \A caller \in Principals :
        \A r \in {getAllInsurancePolicies(insurancePolicyStorage, caller).result,
                  getAllInsurancePolicies_part_001(insurancePolicyStorage, caller).result} :
            IsOk(r) =>
                /\ {r.Ok[i] : i \in DOMAIN r.Ok} = ownedBy(insurancePolicyStorage, caller)
                /\ Len(r.Ok) = Cardinality(ownedBy(insurancePolicyStorage, caller))

(* The fields of the LifeInsurancePolicy record of the canister's Candid    *)
(* interface other than id, createdAt and updatedAt.                       *)
PolicyPayloadFields ==
    {"policyHolder", "policyStartDate", "isClaimed", "coverageAmount",
     "policyEndDate", "premiumAmount", "policyHolderName"}

(* C14: createInsurancePolicy, and updateInsurancePolicy on a stored id,   *)
(* reject a payload that lacks any field of PolicyPayloadFields,           *)
(* policyHolderName included, with the failure "Missing required field:    *)
(* <field>." naming a field it lacks, and store nothing.                   *)
C14_MissingFieldRejected ==
    \A payload \in PayloadInputs \ {JsNull} :
        LET missing == PolicyPayloadFields \ DOMAIN payload.fields
            rejections == {Err(missingFieldMessage(field)) : field \in missing}
            created == createInsurancePolicy(insurancePolicyStorage, payload,
                                             uuidv4(uuidCount + 1), time)
        IN  missing # {} =>
                /\ created.result \in rejections
                /\ created.store = insurancePolicyStorage
                /\ \A id \in DOMAIN insurancePolicyStorage :
                       LET updated == updateInsurancePolicy(insurancePolicyStorage,
                                                            id, payload, time)
                       IN  /\ updated.result \in rejections
                           /\ updated.store = insurancePolicyStorage

(* C15: in every reachable state and for every stored id,                  *)
(* deleteInsurancePolicy, in either variant, returns the record exactly as *)
(* it is stored, whatever isClaimed and updatedAt an earlier fileClaim     *)
(* left in it, removes that entry and no other, and getInsurancePolicy     *)
(* with the same id then returns the not-found failure.                    *)
C15_DeleteReturnsStoredAndRemoves ==
    \A id \in DOMAIN insurancePolicyStorage :
        \A deleted \in {deleteInsurancePolicy(insurancePolicyStorage, id),
                        deleteInsurancePolicy_part_001(insurancePolicyStorage, id)} :
            /\ deleted.result = Ok(insurancePolicyStorage[id])
            /\ DOMAIN deleted.store = DOMAIN insurancePolicyStorage \ {id}
            /\ \A other \in DOMAIN deleted.store :
                   deleted.store[other] = insurancePolicyStorage[other]
            /\ getInsurancePolicy(deleted.store, id).result = Err(notFoundMessage(id))

C15_Witness ==
    \E id \in Ids :
        /\ Called("deleteInsurancePolicy", id)
        /\ IsOk(result)
        /\ result.Ok.id = id
        /\ result.Ok.isClaimed
        /\ result.Ok.updatedAt = OptSome(1)
        /\ time = 2
        /\ ~Live(id)

(* C16: in every reachable state each key of the store is the id of the    *)
(* record stored under it, and, uuidv4() handing out a fresh id each time, *)
(* a successful createInsurancePolicy adds exactly one entry, under an id  *)
(* that was not stored, and leaves every entry that was stored as it was.  *)
C16_KeysAreIds ==
    \A id \in DOMAIN insurancePolicyStorage : insurancePolicyStorage[id].id = id

C16_CreateAddsOneEntry ==
    [][(CallStep /\ call'.op = "createInsurancePolicy" /\ IsOk(result')) =>
          /\ result'.Ok.id \notin DOMAIN insurancePolicyStorage
          /\ DOMAIN insurancePolicyStorage' =
                 DOMAIN insurancePolicyStorage \cup {result'.Ok.id}
          /\ \A id \in DOMAIN insurancePolicyStorage :
                 insurancePolicyStorage'[id] = insurancePolicyStorage[id]
          /\ \A id \in DOMAIN insurancePolicyStorage' :
                 insurancePolicyStorage'[id].id = id]_vars

C16_IdUniqueness == []C16_KeysAreIds /\ C16_CreateAddsOneEntry

C16_Witness ==
    /\ call.op = "createInsurancePolicy"
    /\ IsOk(result)
    /\ result.Ok.id = uuidv4(2)
    /\ DOMAIN insurancePolicyStorage = {uuidv4(1), uuidv4(2)}
    /\ insurancePolicyStorage[uuidv4(1)].updatedAt # OptNone

(* What updateInsurancePolicy returns for a payload it rejects. *)
payloadRejections ==
    {Err(invalidUpdatePayloadMessage)} \cup
    {Err(missingFieldMessage(field)) : field \in requiredFieldSet}

(* C17: deletion is permanent. uuidv4() never handing out an id twice, an  *)
(* id that was handed out and is not stored is an id that was deleted. In  *)
(* every step from a state where such an id is not stored, it is not       *)
(* stored afterwards either, whatever the call; getInsurancePolicy,        *)
(* deleteInsurancePolicy and fileClaim on it return the not-found failure, *)
(* and so does updateInsurancePolicy unless it rejects the payload.        *)
C17_DeletionIsPermanent ==
    [][\A n \in 1..uuidCount :
          LET id == uuidv4(n)
          IN  ~Live(id) =>
                  /\ ~Live(id)'
                  /\ \A payload \in FullPayloads :
                         updateInsurancePolicy(insurancePolicyStorage, id, payload,
                                               time).result = Err(notFoundMessage(id))
                  /\ (CallStep /\ call'.id = id) =>
                         \/ result' = Err(notFoundMessage(id))
                         \/ /\ call'.op = "updateInsurancePolicy"
                            /\ result' \in payloadRejections]_vars

C17_Witness ==
    /\ uuidCount = 2
    /\ ~Live(uuidv4(1))
    /\ Live(uuidv4(2))
    /\ Called("fileClaim", uuidv4(1))
    /\ result = Err(notFoundMessage(uuidv4(1)))

(* C18: calls on different keys are independent. A successful              *)
(* updateInsurancePolicy, deleteInsurancePolicy or fileClaim on one id     *)
(* leaves the record stored under every other id as it was, and a          *)
(* successful createInsurancePolicy leaves every record that was stored as *)
(* it was.                                                                 *)
C18_OtherKeysUntouched ==
    [][(/\ CallStep
        /\ IsOk(result')
        /\ call'.op \in {"createInsurancePolicy", "updateInsurancePolicy",
                         "deleteInsurancePolicy", "fileClaim"}) =>
          \A other \in DOMAIN insurancePolicyStorage \ {call'.id} :
              /\ other \in DOMAIN insurancePolicyStorage'
              /\ insurancePolicyStorage'[other] = insurancePolicyStorage[other]]_vars

C18_Witness ==
    /\ Called("updateInsurancePolicy", uuidv4(2))
    /\ IsOk(result)
    /\ insurancePolicyStorage[uuidv4(2)] = result.Ok
    /\ Live(uuidv4(1))
    /\ insurancePolicyStorage[uuidv4(1)].isClaimed
    /\ insurancePolicyStorage[uuidv4(1)].policyHolder # result.Ok.policyHolder

(* C19: the two queries are read-only. In every reachable state            *)
(* getInsurancePolicy, for every id, and getAllInsurancePolicies, for      *)
(* every caller, leave the store as it is, in either variant and whether   *)
(* they succeed or fail; a step that is one of these calls changes neither *)
(* the store nor the ids handed out nor the clock.                         *)
C19_QueriesKeepStore ==
    /\ \A id \in IdInputs :
           /\ getInsurancePolicy(insurancePolicyStorage, id).store
                  = insurancePolicyStorage
           /\ getInsurancePolicy_part_001(insurancePolicyStorage, id).store
                  = insurancePolicyStorage
    /\ \A caller \in Principals :
           /\ getAllInsurancePolicies(insurancePolicyStorage, caller).store
                  = insurancePolicyStorage
           /\ getAllInsurancePolicies_part_001(insurancePolicyStorage, caller).store
                  = insurancePolicyStorage

C19_QueryStepsChangeNothing ==
    [][(/\ CallStep
        /\ call'.op \in {"getInsurancePolicy", "getAllInsurancePolicies"}) =>
          UNCHANGED <<insurancePolicyStorage, uuidCount, time>>]_vars

C19_QueriesAreReadOnly == []C19_QueriesKeepStore /\ C19_QueryStepsChangeNothing

C19_Witness ==
    \E id \in Ids :
        /\ Called("getInsurancePolicy", id)
        /\ Live(id)
        /\ result = Ok(insurancePolicyStorage[id])
        /\ insurancePolicyStorage[id].isClaimed
        /\ insurancePolicyStorage[id].updatedAt = OptSome(2)

(* C20: the variant with validation and the variant without it agree on   *)
(* valid input. Given the same clock and the same uuidv4() values, after   *)
(* every call of any sequence of createInsurancePolicy,                    *)
(* getInsurancePolicy, updateInsurancePolicy, deleteInsurancePolicy and    *)
(* fileClaim with non-empty ids and payloads that have every required      *)
(* field, the two have returned the same result and hold the same store.   *)
C20_VariantsAgree ==
    /\ plainStorage = insurancePolicyStorage
    /\ plainResult = result

C20_Witness ==
    \E id \in Ids :
        /\ Called("fileClaim", id)
        /\ result = Err(alreadyFiledMessage(id))
        /\ plainResult = Err(alreadyFiledMessage(id))
        /\ id \in DOMAIN plainStorage
        /\ plainStorage[id].isClaimed
        /\ plainStorage[id].updatedAt = OptSome(1)
        /\ time = 2

=============================================================================
